---- MODULE Spec2Model ----
(***************************************************************************)
(* Model of the investment-analysis-tool reconciliation pipeline:          *)
(* PortfolioAnalyzer (analysis.py) driven by generate_report (app.py).     *)
(*                                                                         *)
(* Conventions.                                                            *)
(*  - Text is a sequence of one-character strings, so that the string      *)
(*    operations of the code (replace, upper, substring test) are          *)
(*    computed character by character.  Dictionary keys are such texts;    *)
(*    Join gives the string a text is compared with in the code's lists.   *)
(*  - Numbers are fixed-point integers in units of 1/10000: one share or   *)
(*    one dollar is 10000.  Arithmetic is exact; IEEE rounding of the      *)
(*    Python floats is not modelled.                                       *)
(*  - A CSV cell is a record [t, n, s]: t = "num" (value n), "str" (text   *)
(*    s) or "nan" (empty cell, pandas NaN).                                *)
(*  - A DataFrame is [cols, rows]: the set of column names and the         *)
(*    sequence of rows, each row a function from cols to cells.  Every     *)
(*    row carries the column "#": its pandas index label.                  *)
(*  - A Python dict is a sequence of [k, v] entries in insertion order.    *)
(***************************************************************************)
EXTENDS Integers, Sequences, FiniteSets, TLC

(***************************************************************************)
(* Bounds of the model                                                     *)
(***************************************************************************)
MaxHistRows == 3

MaxPosRows == 2

MaxOrderRows == 3

(***************************************************************************)
(* Text                                                                    *)
(***************************************************************************)
RECURSIVE Join(_)
Join(cs) == IF cs = <<>> THEN "" ELSE Head(cs) \o Join(Tail(cs))

LowerAlpha == <<"a","b","c","d","e","f","g","h","i","j","k","l","m",
                "n","o","p","q","r","s","t","u","v","w","x","y","z">>

UpperAlpha == <<"A","B","C","D","E","F","G","H","I","J","K","L","M",
                "N","O","P","Q","R","S","T","U","V","W","X","Y","Z">>

UpperChar(c) ==
    IF \E i \in 1..26 : LowerAlpha[i] = c
    THEN UpperAlpha[CHOOSE i \in 1..26 : LowerAlpha[i] = c]
    ELSE c

LowerChar(c) ==
    IF \E i \in 1..26 : UpperAlpha[i] = c
    THEN LowerAlpha[CHOOSE i \in 1..26 : UpperAlpha[i] = c]
    ELSE c

\* str.upper()
Upper(cs) == [i \in 1..Len(cs) |-> UpperChar(cs[i])]

\* str.lower()
Lower(cs) == [i \in 1..Len(cs) |-> LowerChar(cs[i])]

\* sub in cs
Contains(cs, sub) ==
    \E i \in 1..(Len(cs) - Len(sub) + 1) : SubSeq(cs, i, i + Len(sub) - 1) = sub

\* cs with every character of the set drop removed (str.replace(c, ''),
\* and the regex character classes [\$,] and [,\$\%])
Strip(cs, drop) == SelectSeq(cs, LAMBDA c : c \notin drop)

Digits == <<"0","1","2","3","4","5","6","7","8","9">>

IsDigit(c) == \E i \in 1..10 : Digits[i] = c

DigitVal(c) == (CHOOSE i \in 1..10 : Digits[i] = c) - 1

RECURSIVE DigitsVal(_)
DigitsVal(cs) ==
    IF cs = <<>> THEN 0
    ELSE DigitsVal(SubSeq(cs, 1, Len(cs) - 1)) * 10 + DigitVal(cs[Len(cs)])

Pow10(k) == CASE k = 0 -> 1 [] k = 1 -> 10 [] k = 2 -> 100 [] k = 3 -> 1000 [] OTHER -> 10000

\* One unit of quantity or money in fixed point.
Units(n) == n * 10000

\* The digits before and after the point as a fixed-point value; not a
\* number (ok = FALSE) unless both are digits only, at most four after the
\* point and one digit at least.
ParseDigits(ip, fp) ==
    IF /\ Len(ip) + Len(fp) >= 1
       /\ Len(fp) <= 4
       /\ \A i \in 1..Len(ip) : IsDigit(ip[i])
       /\ \A i \in 1..Len(fp) : IsDigit(fp[i])
    THEN [ok |-> TRUE, n |-> Units(DigitsVal(ip)) + DigitsVal(fp) * Pow10(4 - Len(fp))]
    ELSE [ok |-> FALSE, n |-> 0]

\* The index of the first point of cs, or Len(cs) + 1 when it has none.
PointIndex(cs) ==
    IF \E i \in 1..Len(cs) : cs[i] = "."
    THEN CHOOSE i \in 1..Len(cs) : cs[i] = "." /\ \A j \in 1..(i - 1) : cs[j] # "."
    ELSE Len(cs) + 1

SplitAt(cs, point) == ParseDigits(SubSeq(cs, 1, point - 1), SubSeq(cs, point + 1, Len(cs)))

Negated(p) == [ok |-> p.ok, n |-> 0 - p.n]

\* float(text): the decimal texts [-]digits[.digits] with at most four
\* fraction digits parse to their fixed-point value; every other text of
\* the model raises ValueError (ok = FALSE).
ParseFloat(cs) ==
    IF cs # <<>> /\ Head(cs) = "-"
    THEN Negated(SplitAt(Tail(cs), PointIndex(Tail(cs))))
    ELSE SplitAt(cs, PointIndex(cs))

(***************************************************************************)
(* Cells                                                                   *)
(***************************************************************************)
Num(n) == [t |-> "num", n |-> n, s |-> <<>>]

Str(cs) == [t |-> "str", n |-> 0, s |-> cs]

NaN == [t |-> "nan", n |-> 0, s |-> <<>>]

\* str(cell) for the cells whose text the code inspects: a text cell is its
\* text, an empty cell is 'nan'.  The text of a number holds digits, a sign
\* and a point only; it is never inspected beyond that.
Text(cell) ==
    CASE cell.t = "str" -> cell.s
      [] cell.t = "nan" -> <<"n","a","n">>
      [] OTHER -> <<"0">>

\* row.get(col, default)
Get(row, col, default) == IF col \in DOMAIN row THEN row[col] ELSE default

(***************************************************************************)
(* Python dicts in insertion order                                         *)
(***************************************************************************)
Keys(d) == {d[i].k : i \in 1..Len(d)}

Lookup(d, key) == d[CHOOSE i \in 1..Len(d) : d[i].k = key].v

\* d.get(key, default)
DictGet(d, key, default) == IF key \in Keys(d) THEN Lookup(d, key) ELSE default

\* d[key] = val
DictSet(d, key, val) ==
    IF key \in Keys(d)
    THEN [i \in 1..Len(d) |-> IF d[i].k = key THEN [k |-> key, v |-> val] ELSE d[i]]
    ELSE Append(d, [k |-> key, v |-> val])

\* del d[key]
DictDel(d, key) == SelectSeq(d, LAMBDA e : e.k # key)

RECURSIVE SumSeq(_)
SumSeq(ns) == IF ns = <<>> THEN 0 ELSE Head(ns) + SumSeq(Tail(ns))

\* sum(d.values())
SumValues(d) == SumSeq([i \in 1..Len(d) |-> d[i].v])

(***************************************************************************)
(* DataFrames                                                              *)
(***************************************************************************)
\* A file at a path: kind "csv" (header cols and rows), "unreadable"
\* (pd.read_csv raises) or "none" (no path was given).
Csv(cols, rows) == [kind |-> "csv", cols |-> cols, rows |-> rows]

Unreadable == [kind |-> "unreadable", cols |-> {}, rows |-> <<>>]

NoFile == [kind |-> "none", cols |-> {}, rows |-> <<>>]

None == [none |-> TRUE, cols |-> {}, rows |-> <<>>, nontext |-> {}]

\* A frame: nontext holds the columns whose dtype is not object (float64,
\* datetime64); the .str accessor raises on them.
Frame(cols, rows, nontext) == [none |-> FALSE, cols |-> cols, rows |-> rows, nontext |-> nontext]

\* The dtype inference of read_csv and of pd.DataFrame(records): a column of
\* at least one row none of whose cells is a text is not an object column.
Inferred(cols, rows) ==
    {c \in cols : rows # <<>> /\ \A i \in 1..Len(rows) : rows[i][c].t # "str"}

Df(cols, rows) == Frame(cols, rows, Inferred(cols, rows))

\* pd.read_csv of a readable file: the rows get the index labels 0..n-1.
ReadCsv(file) ==
    Df(file.cols \cup {"#"},
       [i \in 1..Len(file.rows) |-> file.rows[i] @@ ("#" :> Num(i - 1))])

\* df.rename(columns=m): m maps the old names it renames to the new ones;
\* names absent from the frame are ignored.
DfRename(df, m) ==
    LET new(c)  == IF c \in DOMAIN m THEN m[c] ELSE c
        cols2   == {new(c) : c \in df.cols}
        old(c2) == CHOOSE c \in df.cols : new(c) = c2
    IN  Frame(cols2, [i \in 1..Len(df.rows) |-> [c2 \in cols2 |-> df.rows[i][old(c2)]]],
              {new(c) : c \in df.nontext})

\* df[col] = <series>: the cells of the series, and whether its dtype is
\* object (text) or not
DfAssign(df, col, values, text) ==
    Frame(df.cols \cup {col},
          [i \in 1..Len(df.rows) |->
               [c \in df.cols \cup {col} |->
                   IF c = col THEN values[i] ELSE df.rows[i][c]]],
          IF text THEN df.nontext \ {col} ELSE df.nontext \cup {col})

\* df[col] computed row by row: the sequence of the cells of one column
Column(df, col) == [i \in 1..Len(df.rows) |-> df.rows[i][col]]

\* df[<mask>], df.dropna: the rows whose index label is kept, in order
DfFilter(df, kept) ==
    Frame(df.cols, SelectSeq(df.rows, LAMBDA row : row["#"] \in kept), df.nontext)

\* The index labels of the rows whose cell in the column is one of cells.
LabelsWhere(df, col, cells) ==
    {df.rows[i]["#"] : i \in {j \in 1..Len(df.rows) : df.rows[j][col] \in cells}}

\* The index labels of the rows whose cell in the column is not empty.
LabelsNotNa(df, col) ==
    {df.rows[i]["#"] : i \in {j \in 1..Len(df.rows) : df.rows[j][col].t # "nan"}}

\* Insertion of row r into the rows sorted by Date, after the rows whose
\* date is not greater (stable).
RECURSIVE InsertSorted(_, _)
InsertSorted(rows, r) ==
    IF rows = <<>> THEN <<r>>
    ELSE IF rows[Len(rows)]["Date"].n <= r["Date"].n THEN Append(rows, r)
    ELSE Append(InsertSorted(SubSeq(rows, 1, Len(rows) - 1), r), rows[Len(rows)])

RECURSIVE SortRows(_)
SortRows(rows) ==
    IF rows = <<>> THEN <<>>
    ELSE InsertSorted(SortRows(SubSeq(rows, 1, Len(rows) - 1)), rows[Len(rows)])

\* df.sort_values('Date'): ascending; rows of equal date keep their order
\* (the frames of the model are short, where numpy's sort is an insertion
\* sort).
SortByDate(df) == Frame(df.cols, SortRows(df.rows), df.nontext)

\* The date texts of the model are MM/DD/YYYY; pd.to_datetime gives such a
\* text its timestamp (here a day ordinal) and cannot parse anything else.
IsDateText(cs) ==
    /\ Len(cs) = 10
    /\ cs[3] = "/" /\ cs[6] = "/"
    /\ \A i \in {1, 2, 4, 5, 7, 8, 9, 10} : IsDigit(cs[i])

DayOrdinal(cs) ==
    (DigitsVal(SubSeq(cs, 7, 10)) * 12 + DigitsVal(SubSeq(cs, 1, 2))) * 31
        + DigitsVal(SubSeq(cs, 4, 5))

Parseable(cell) == cell.t = "str" /\ IsDateText(cell.s)

\* pd.to_datetime(..., errors='coerce') of one cell: NaT (an empty cell) for
\* what does not parse.
ToDatetime(cell) ==
    IF Parseable(cell) THEN [t |-> "date", n |-> DayOrdinal(cell.s), s |-> <<>>] ELSE NaN

(***************************************************************************)
(* PortfolioAnalyzer.load_data                                             *)
(***************************************************************************)
USD == <<"U","S","D">>

\* Variant of ShiftDetected: .all() in place of .any().
ShiftDetectedInEveryRow(df) ==
    /\ "Quantity" \in df.cols
    /\ \A i \in 1..Len(df.rows) : Contains(Text(df.rows[i]["Quantity"]), USD)

\* self.history_df['Quantity'].astype(str).str.contains('USD').any()
ShiftDetected(df) ==
    /\ "Quantity" \in df.cols
    /\ \E i \in 1..Len(df.rows) : Contains(Text(df.rows[i]["Quantity"]), USD)

\* self.history_df['Price'] = self.history_df['RealPrice']
RebindPrice(df) ==
    IF "RealPrice" \notin df.cols THEN [ok |-> FALSE, df |-> df]
    ELSE [ok |-> TRUE, df |-> DfAssign(df, "Price", Column(df, "RealPrice"), "RealPrice" \notin df.nontext)]

\* self.history_df['Quantity'] = self.history_df['RealQuantity']
RebindQuantity(df) ==
    IF "RealQuantity" \notin df.cols THEN [ok |-> FALSE, df |-> df]
    ELSE RebindPrice(DfAssign(df, "Quantity", Column(df, "RealQuantity"), "RealQuantity" \notin df.nontext))

\* The rename and the two re-bound columns; a KeyError (ok = FALSE) when the
\* frame has no Price or no Currency column to take them from.
RepairColumns(df) ==
    RebindQuantity(DfRename(df, ("Quantity" :> "CurrencyCode") @@ ("Currency" :> "RealPrice")
                                @@ ("Price" :> "RealQuantity")))

\* "Fix misaligned columns in history if needed"
SchemaRepair(df) == IF ShiftDetected(df) THEN RepairColumns(df) ELSE [ok |-> TRUE, df |-> df]

AsCell(p) == [ok |-> p.ok, cell |-> Num(p.n)]

\* .replace(r'[\$,]', '', regex=True).astype(float) of one Amount cell
AmountCell(cell) ==
    IF cell.t = "str" THEN AsCell(ParseFloat(Strip(cell.s, {"$", ","})))
    ELSE [ok |-> TRUE, cell |-> cell]

\* Run Date parsed, the rows without a date dropped, Date = Run Date
ParsedRunDate(df) ==
    DfAssign(df, "Run Date", [i \in 1..Len(df.rows) |-> ToDatetime(df.rows[i]["Run Date"])], FALSE)

DropUndated(df) == DfFilter(df, LabelsNotNa(df, "Run Date"))

CopyRunDate(df) == DfAssign(df, "Date", Column(df, "Run Date"), FALSE)

WithDates(df) == CopyRunDate(DropUndated(ParsedRunDate(df)))

\* The Amount column made float when there is one, then the sort by Date.
CoerceAmounts(df) ==
    IF "Amount" \notin df.cols THEN [ok |-> TRUE, df |-> SortByDate(df)]
    ELSE IF \E i \in 1..Len(df.rows) : ~AmountCell(df.rows[i]["Amount"]).ok
         THEN [ok |-> FALSE, df |-> df]
    ELSE [ok |-> TRUE,
          df |-> SortByDate(DfAssign(df, "Amount",
                    [i \in 1..Len(df.rows) |-> AmountCell(df.rows[i]["Amount"]).cell], FALSE))]

AfterRepair(rep) ==
    IF ~rep.ok \/ "Run Date" \notin rep.df.cols THEN [ok |-> FALSE, df |-> rep.df]
    ELSE CoerceAmounts(WithDates(rep.df))

\* The history half of load_data: ok = FALSE where the code catches an
\* exception and returns False; df is self.history_df as the code left it.
LoadHistory(file) ==
    IF file.kind # "csv" THEN [ok |-> FALSE, df |-> None]
    ELSE AfterRepair(SchemaRepair(ReadCsv(file)))

cols_to_clean == {"Quantity", "Last Price", "Current Value", "Total Gain/Loss Dollar",
                  "Percent Of Account", "Total Gain/Loss Percent", "Today's Gain/Loss Percent"}

\* .astype(str).str.replace(r'[,\$\%]', '') then pd.to_numeric(errors='coerce')
\* .fillna(0) of one cell
ToNumeric(cell) ==
    IF cell.t = "num" THEN cell
    ELSE Num(ParseFloat(Strip(Text(cell), {",", "$", "%"})).n)

\* "Convert numeric columns"
CleanNumeric(df) ==
    Frame(df.cols,
          [i \in 1..Len(df.rows) |->
               [c \in df.cols |->
                   IF c \in cols_to_clean THEN ToNumeric(df.rows[i][c]) ELSE df.rows[i][c]]],
          df.nontext \cup (cols_to_clean \cap df.cols))

\* "Remove footer rows (where Account Number is NaN or empty)"; a frame
\* without the column is left as read (the KeyError is caught).
CleanPositions(df) ==
    IF "Account Number" \notin df.cols THEN df
    ELSE CleanNumeric(DfFilter(df, LabelsNotNa(df, "Account Number")))

\* The positions half of load_data: self.positions_df afterwards.  A file
\* that cannot be read leaves it None and the load continues.
LoadPositions(file) == IF file.kind # "csv" THEN None ELSE CleanPositions(ReadCsv(file))

WithPositions(h, positions_file) ==
    IF ~h.ok THEN [ok |-> FALSE, history_df |-> h.df, positions_df |-> None]
    ELSE [ok |-> TRUE, history_df |-> h.df, positions_df |-> LoadPositions(positions_file)]

LoadData(history_file, positions_file) == WithPositions(LoadHistory(history_file), positions_file)

(***************************************************************************)
(* PortfolioAnalyzer.calculate_holdings                                    *)
(***************************************************************************)
PendingActivity == <<"P","e","n","d","i","n","g"," ","a","c","t","i","v","i","t","y">>

\* "if not symbol or symbol == 'nan' or 'Pending activity' in symbol: continue"
SkipSymbol(symbol) ==
    \/ symbol = <<>>
    \/ symbol = <<"n","a","n">>
    \/ Contains(symbol, PendingActivity)

\* "Clean symbol (remove ** or similar artifacts)"
CleanSymbol(symbol) == Strip(symbol, {"*"})

\* row.to_dict(): the row without its index label
ToDict(row) == [c \in DOMAIN row \ {"#"} |-> row[c]]

\* self.holdings[symbol] = qty; self.holdings_data[symbol] = row.to_dict()
SetPosition(acc, symbol, row) ==
    [holdings      |-> DictSet(acc.holdings, symbol, Get(row, "Quantity", Num(0)).n),
     holdings_data |-> DictSet(acc.holdings_data, symbol, ToDict(row))]

FoldSymbol(acc, row, symbol) ==
    IF SkipSymbol(symbol) THEN acc ELSE SetPosition(acc, CleanSymbol(symbol), row)

\* One iteration of the loop over the position rows.
FoldPosition(acc, row) == FoldSymbol(acc, row, Text(Get(row, "Symbol", Str(<<>>))))

RECURSIVE FoldPositions(_, _)
FoldPositions(acc, rows) ==
    IF rows = <<>> THEN acc ELSE FoldPositions(FoldPosition(acc, Head(rows)), Tail(rows))

\* The snapshot branch when no holdings were calculated before.
SnapshotFold(positions_df) ==
    FoldPositions([holdings |-> <<>>, holdings_data |-> <<>>], positions_df.rows)

\* The quantity of a history row as the replay reads it: a text is parsed
\* with its commas removed, and what does not parse, or is empty, counts 0.
ReplayQty(cell) ==
    CASE cell.t = "str" -> ParseFloat(Strip(cell.s, {","})).n
      [] cell.t = "nan" -> 0
      [] OTHER -> cell.n

BOUGHT == <<"B","O","U","G","H","T">>

REINVESTMENT == <<"R","E","I","N","V","E","S","T","M","E","N","T">>

SOLD == <<"S","O","L","D">>

\* current_holdings[symbol] = current_holdings.get(symbol, 0) + qty
Added(current_holdings, symbol, qty) ==
    DictSet(current_holdings, symbol, DictGet(current_holdings, symbol, 0) + qty)

\* Variant of DropIfNotPositive: < 0 in place of <= 0.
DropIfNegative(current_holdings, symbol) ==
    IF Lookup(current_holdings, symbol) < 0 THEN DictDel(current_holdings, symbol)
    ELSE current_holdings

\* "if current_holdings[symbol] <= 0: del current_holdings[symbol]"
DropIfNotPositive(current_holdings, symbol) ==
    IF Lookup(current_holdings, symbol) <= 0 THEN DictDel(current_holdings, symbol)
    ELSE current_holdings

ApplyAction(current_holdings, action, symbol, qty) ==
    IF Contains(action, BOUGHT) \/ Contains(action, REINVESTMENT)
    THEN Added(current_holdings, symbol, qty)
    ELSE IF Contains(action, SOLD)
         THEN DropIfNotPositive(Added(current_holdings, symbol, qty), symbol)
    ELSE current_holdings

\* One iteration of the replay loop over the history rows.
ReplayRow(current_holdings, row) ==
    ApplyAction(current_holdings,
                Upper(Text(Get(row, "Action", Str(<<>>)))),
                Text(Get(row, "Symbol", Str(<<>>))),
                ReplayQty(Get(row, "Quantity", Num(0))))

RECURSIVE ReplayRows(_, _)
ReplayRows(current_holdings, rows) ==
    IF rows = <<>> THEN current_holdings
    ELSE ReplayRows(ReplayRow(current_holdings, Head(rows)), Tail(rows))

\* "Fallback to history reconstruction"
HistoryReplay(history_df) == ReplayRows(<<>>, history_df.rows)

\* calculate_holdings: the analyzer's holdings and holdings_data afterwards.
\* Variant of CalculateHoldings: the transaction history is replayed whenever
\* one was loaded, the snapshot only folded without one.
CalculateHoldingsHistoryFirst(a) ==
    IF a.history_df.none
    THEN SnapshotFold(a.positions_df)
    ELSE [holdings |-> HistoryReplay(a.history_df), holdings_data |-> a.holdings_data]

CalculateHoldings(a) ==
    IF ~a.positions_df.none
    THEN IF a.holdings = <<>>
         THEN SnapshotFold(a.positions_df)
         ELSE [holdings |-> a.holdings, holdings_data |-> a.holdings_data]
    ELSE [holdings |-> HistoryReplay(a.history_df), holdings_data |-> a.holdings_data]

(***************************************************************************)
(* PortfolioAnalyzer.load_robinhood_data                                   *)
(***************************************************************************)
\* 0.0001 shares, the tolerance of the sell branch
SellTolerance == 1

\* 0.001 shares, the tolerance of the final clean-up
ResidualTolerance == 10

\* c.strip().lower().replace(' ', '_') of the header names of the model
NormalizedHeader ==
    ("Symbol" :> "symbol") @@ ("Side" :> "side") @@ ("Quantity" :> "quantity")
    @@ ("Average Price" :> "average_price") @@ ("Price" :> "price")
    @@ ("State" :> "state") @@ ("Date" :> "date") @@ ("Updated At" :> "updated_at")

\* float(cell) of a number or a text (the order files of the model have no
\* empty quantity or price cell)
FloatCell(cell) ==
    CASE cell.t = "num" -> [ok |-> TRUE, n |-> cell.n]
      [] cell.t = "str" -> ParseFloat(cell.s)

\* a * b in fixed point
Mul(a, b) == a * (b \div 10000) + (a * (b % 10000)) \div 10000

Stocks == Str(<<"S","t","o","c","k","s">>)

\* The mock detail row of a holding: its quantity times the price of the
\* order just processed.
MockDetail(value) ==
    [k \in {"Current Value", "Total Gain/Loss Percent", "Investment Type"} |->
        CASE k = "Current Value" -> Num(value)
          [] k = "Total Gain/Loss Percent" -> Num(0)
          [] OTHER -> Stocks]

\* self.holdings[symbol] = self.holdings.get(symbol, 0) - qty, and the
\* deletion when that is <= 0.0001
Sold(holdings, symbol, qty) ==
    IF DictGet(holdings, symbol, 0) - qty <= SellTolerance
    THEN DictDel(holdings, symbol)
    ELSE DictSet(holdings, symbol, DictGet(holdings, symbol, 0) - qty)

HoldingsAfter(holdings, symbol, side, qty) ==
    CASE side = <<"b","u","y">> -> Added(holdings, symbol, qty)
      [] side = <<"s","e","l","l">> -> Sold(holdings, symbol, qty)
      [] OTHER -> holdings

\* "Update "Current Value" estimate using last transaction price"
Estimated(holdings, holdings_data, symbol, price) ==
    [ok            |-> TRUE,
     holdings      |-> holdings,
     holdings_data |-> IF symbol \in Keys(holdings)
                       THEN DictSet(holdings_data, symbol,
                                    MockDetail(Mul(Lookup(holdings, symbol), price)))
                       ELSE holdings_data]

ApplyOrder(acc, symbol, side, qty, price) ==
    IF ~qty.ok \/ ~price.ok THEN [acc EXCEPT !.ok = FALSE]
    ELSE Estimated(HoldingsAfter(acc.holdings, symbol, side, qty.n), acc.holdings_data,
                   symbol, price.n)

\* One iteration of the loop over the filled orders; ok = FALSE when float()
\* raises, which leaves the dicts as the earlier rows made them.
OrderRow(acc, row) ==
    ApplyOrder(acc,
               Upper(Text(Get(row, "symbol", Str(<<>>)))),
               Lower(Text(Get(row, "side", Str(<<>>)))),
               FloatCell(Get(row, "quantity", Num(0))),
               FloatCell(Get(row, "average_price", Get(row, "price", Num(0)))))

RECURSIVE OrderRows(_, _)
OrderRows(acc, rows) ==
    IF rows = <<>> \/ ~acc.ok THEN acc ELSE OrderRows(OrderRow(acc, Head(rows)), Tail(rows))

\* "Clean up small residuals"
CleanResiduals(holdings) == SelectSeq(holdings, LAMBDA e : e.v > ResidualTolerance)

\* "Set positions_df to mock structure for other methods": pd.DataFrame of
\* one row per holding; of no row and no column when nothing is held.
MockPositions(holdings, holdings_data) ==
    IF holdings = <<>> THEN Df({}, <<>>)
    ELSE Df({"#", "Symbol", "Current Value", "Investment Type"},
            [i \in 1..Len(holdings) |->
                [c \in {"#", "Symbol", "Current Value", "Investment Type"} |->
                    CASE c = "#" -> Num(i - 1)
                      [] c = "Symbol" -> Str(holdings[i].k)
                      [] c = "Current Value" ->
                            Lookup(holdings_data, holdings[i].k)["Current Value"]
                      [] OTHER -> Stocks]])

\* The 'Date' column of the orders: pd.to_datetime of 'date', else of
\* 'updated_at' (an exception when a cell does not parse), else the time of
\* the run for every row.
DatedBy(df, col) ==
    IF \A i \in 1..Len(df.rows) : Parseable(df.rows[i][col])
    THEN [ok |-> TRUE, df |-> DfAssign(df, "Date", [i \in 1..Len(df.rows) |-> ToDatetime(df.rows[i][col])], FALSE)]
    ELSE [ok |-> FALSE, df |-> df]

OrderDates(df) ==
    IF "date" \in df.cols THEN DatedBy(df, "date")
    ELSE IF "updated_at" \in df.cols THEN DatedBy(df, "updated_at")
    ELSE [ok |-> TRUE, df |-> DfAssign(df, "Date", [i \in 1..Len(df.rows) |-> [t |-> "date", n |-> 0, s |-> <<>>]], FALSE)]

\* "Filter for filled orders"
FilledOrders(df) ==
    IF "state" \in df.cols
    THEN DfFilter(df, LabelsWhere(df, "state", {Str(<<"f","i","l","l","e","d">>)}))
    ELSE df

NotLoaded(history_df, holdings, holdings_data) ==
    [ok |-> FALSE, history_df |-> history_df, positions_df |-> None,
     holdings |-> holdings, holdings_data |-> holdings_data]

\* The residuals dropped and the mock positions_df set: the load succeeds.
Finished(history_df, holdings, holdings_data) ==
    [ok |-> TRUE, history_df |-> history_df,
     positions_df |-> MockPositions(holdings, holdings_data),
     holdings |-> holdings, holdings_data |-> holdings_data]

Reconstructed(history_df, looped) ==
    IF ~looped.ok THEN NotLoaded(history_df, looped.holdings, looped.holdings_data)
    ELSE Finished(history_df, CleanResiduals(looped.holdings), looped.holdings_data)

\* "Reconstruct holdings" over the orders sorted by Date
Reconstruct(history_df) ==
    Reconstructed(history_df,
                  OrderRows([ok |-> TRUE, holdings |-> <<>>, holdings_data |-> <<>>],
                            history_df.rows))

Dated(dated) ==
    IF ~dated.ok THEN NotLoaded(dated.df, <<>>, <<>>) ELSE Reconstruct(SortByDate(dated.df))

\* "Check if it's an orders file"
OrdersFile(df) ==
    IF ~({"side", "symbol"} \subseteq df.cols) THEN NotLoaded(df, <<>>, <<>>)
    ELSE Dated(OrderDates(FilledOrders(df)))

\* load_robinhood_data: its return value (ok) and the analyzer's fields
\* afterwards, also where an exception was caught half way.
LoadRobinhood(file) ==
    IF file.kind # "csv" THEN NotLoaded(None, <<>>, <<>>)
    ELSE OrdersFile(DfRename(ReadCsv(file), NormalizedHeader))

(***************************************************************************)
(* PortfolioAnalyzer.get_factor_exposure                                   *)
(***************************************************************************)
\* The classification table, in the order of the dict literal.
factors == <<
    [name |-> "Growth/Tech",
     symbols |-> {"NVDA", "QQQ", "ARKK", "SOFI", "HOOD", "NET", "ZETA", "ONTO", "AMZN", "GOOG",
                  "MSFT", "AAPL", "TSM", "NBIS", "OSCR", "PYPL", "JD", "BABA", "BIDU", "REGN"}],
    [name |-> "Market/Core",
     symbols |-> {"VOO", "SPY", "BRKB", "VUG", "VTI", "VXUS", "ALLW"}],
    [name |-> "Income/Yield",
     symbols |-> {"JEPI", "JEPQ", "TLT", "EPD", "ET", "MPLX", "DKL", "PALL"}],
    [name |-> "Defensive",
     symbols |-> {"COST", "UPS", "UNH"}],
    [name |-> "Cash/Equivalents",
     symbols |-> {"SPAXX", "FDRXX"}] >>

\* exposure = {"Unclassified": 0}; for f in factors: exposure[f] = 0
EmptyExposure ==
    <<[k |-> "Unclassified", v |-> 0]>> \o [i \in 1..Len(factors) |-> [k |-> factors[i].name, v |-> 0]]

\* "Use Value if available, otherwise Quantity": the weight of one holding
Weight(a, symbol, qty) ==
    IF ~a.positions_df.none /\ symbol \in Keys(a.holdings_data)
    THEN Get(Lookup(a.holdings_data, symbol), "Current Value", Num(0)).n
    ELSE qty

\* Variant of BucketsOf: the found flag is never set, so "Unclassified" is
\* added to as well.
BucketsOfNeverFound(symbol) ==
    {factors[i].name : i \in {j \in 1..Len(factors) : Join(symbol) \in factors[j].symbols}}
        \cup {"Unclassified"}

\* The buckets one symbol's weight is added to: the first factor whose list
\* holds it (the loop breaks there), or "Unclassified" when none was found.
BucketsOf(symbol) ==
    LET matching == {i \in 1..Len(factors) : Join(symbol) \in factors[i].symbols}
        first    == CHOOSE i \in matching : \A j \in matching : i <= j
    IN  IF matching # {} THEN {factors[first].name} ELSE {"Unclassified"}

AddExposure(exposure, symbol, val) ==
    [i \in 1..Len(exposure) |->
        IF exposure[i].k \in BucketsOf(symbol)
        THEN [k |-> exposure[i].k, v |-> exposure[i].v + val]
        ELSE exposure[i]]

RECURSIVE AccumulateExposure(_, _, _)
AccumulateExposure(a, exposure, entries) ==
    IF entries = <<>> THEN exposure
    ELSE AccumulateExposure(a,
            AddExposure(exposure, Head(entries).k, Weight(a, Head(entries).k, Head(entries).v)),
            Tail(entries))

\* return {k: v for k, v in exposure.items() if v > 0}
PositiveBuckets(exposure) == SelectSeq(exposure, LAMBDA e : e.v > 0)

GetFactorExposure(a) == PositiveBuckets(AccumulateExposure(a, EmptyExposure, a.holdings))

(***************************************************************************)
(* PortfolioAnalyzer.generate_tweaks                                       *)
(***************************************************************************)
\* sorted_holdings.sort(key=lambda x: x[1], reverse=True): descending by
\* value, entries of equal value in their earlier order.
RECURSIVE InsertDescending(_, _)
InsertDescending(es, e) ==
    IF es = <<>> THEN <<e>>
    ELSE IF es[Len(es)].v >= e.v THEN Append(es, e)
    ELSE Append(InsertDescending(SubSeq(es, 1, Len(es) - 1), e), es[Len(es)])

\* Variant of SortDescending: the insertion order is kept.
InsertionOrder(es) == es

RECURSIVE SortDescending(_)
SortDescending(es) ==
    IF es = <<>> THEN <<>>
    ELSE InsertDescending(SortDescending(SubSeq(es, 1, Len(es) - 1)), es[Len(es)])

\* One more digit of the quotient q, r being the remainder so far.
DivStep(acc, total) ==
    [q |-> acc.q * 10 + (acc.r * 10) \div total, r |-> (acc.r * 10) % total]

RoundHalfEven(acc, total) ==
    IF 2 * acc.r > total \/ (2 * acc.r = total /\ acc.q % 2 = 1) THEN acc.q + 1 ELSE acc.q

\* f"{weight:.1%}" of weight = val / total, in tenths of a percent: the
\* quotient by long division, the last digit rounded half to even.
Permille(val, total) ==
    RoundHalfEven(
        DivStep(DivStep(DivStep([q |-> val \div total, r |-> val % total], total), total), total),
        total)

\* "symbol not in ["SPAXX", "FDRXX"]"
\* Variant of ConcentrationExempt: only SPAXX is on the list.
ExemptOnlySPAXX(symbol) == Join(symbol) = "SPAXX"

ConcentrationExempt(symbol) == Join(symbol) \in {"SPAXX", "FDRXX"}

\* Variant of OverThreshold: >= in place of >.
AtOrOverThreshold(a, val, total_exposure) == val * 100 >= 15 * total_exposure

\* "weight > 0.15" for weight = val / total_exposure, total_exposure > 0
OverThreshold(a, val, total_exposure) == val * 100 > 15 * total_exposure

Diversification == [kind |-> "diversification", symbol |-> <<>>, val |-> 0, pct |-> 0]

FactorBalance == [kind |-> "factor", symbol |-> <<>>, val |-> 0, pct |-> 0]

Concentration(symbol, val, total_exposure) ==
    [kind |-> "concentration", symbol |-> symbol, val |-> val,
     pct |-> Permille(val, total_exposure)]

\* The (symbol, value) pairs in the order the alerts are considered.
SortedHoldings(a) ==
    SortDescending([i \in 1..Len(a.holdings) |->
        [k |-> a.holdings[i].k, v |-> Weight(a, a.holdings[i].k, a.holdings[i].v)]])

\* "if len(self.holdings) < 5"
FewPositions(a) == IF Len(a.holdings) < 5 THEN <<Diversification>> ELSE <<>>

Alerts(alerted, total_exposure) ==
    [i \in 1..Len(alerted) |-> Concentration(alerted[i].k, alerted[i].v, total_exposure)]

\* The concentration alerts, in the order of the sorted holdings.
ConcentrationAlerts(a, total_exposure) ==
    IF total_exposure > 0
    THEN Alerts(SelectSeq(SortedHoldings(a), LAMBDA e :
                    ~ConcentrationExempt(e.k) /\ OverThreshold(a, e.v, total_exposure)),
                total_exposure)
    ELSE <<>>

\* "Factor tweaks"
GrowthTilt(exposures, total_exposure) ==
    IF /\ "Growth/Tech" \in Keys(exposures)
       /\ 2 * Lookup(exposures, "Growth/Tech") > total_exposure
    THEN <<FactorBalance>> ELSE <<>>

TweaksFor(a, exposures, total_exposure) ==
    [tweaks |-> FewPositions(a) \o ConcentrationAlerts(a, total_exposure)
                    \o GrowthTilt(exposures, total_exposure),
     total_exposure |-> total_exposure]

TweaksWith(a, exposures) == TweaksFor(a, exposures, SumValues(exposures))

\* The advisories generate_tweaks returns, in order, and its local
\* total_exposure.
GenerateTweaks(a) == TweaksWith(a, GetFactorExposure(a))

(***************************************************************************)
(* PortfolioAnalyzer.analyze_performance and get_asset_allocation          *)
(***************************************************************************)
DIVIDEND == <<"D","I","V","I","D","E","N","D">>

\* Variant of IsDividend: the match is case-sensitive.
IsDividendCaseSensitive(cell) == cell.t = "str" /\ Contains(cell.s, DIVIDEND)

\* .str.contains('DIVIDEND', case=False, na=False) of one Action cell
IsDividend(cell) == cell.t = "str" /\ Contains(Upper(cell.s), DIVIDEND)

\* Series.sum() of a column: empty cells are skipped.
SumColumn(df, col) ==
    SumSeq([i \in 1..Len(df.rows) |->
        IF df.rows[i][col].t = "num" THEN df.rows[i][col].n ELSE 0])

\* The index labels of the rows whose Action contains DIVIDEND.
DividendRows(h) ==
    {h.rows[i]["#"] : i \in {j \in 1..Len(h.rows) : IsDividend(h.rows[j]["Action"])}}

NoPerformance ==
    [total_dividends |-> 0, transaction_count |-> 0, total_value |-> 0,
     total_gain_loss |-> 0, total_gain_loss_pct |-> [num |-> 0, den |-> 1]]

\* The sum of Amount over the dividend rows; 0 without a history.
Dividends(h) ==
    IF h.none THEN 0 ELSE SumColumn(DfFilter(h, DividendRows(h)), "Amount")

\* "Portfolio Value and P&L from Positions"
TotalValue(p) == IF p.none THEN 0 ELSE SumColumn(p, "Current Value")

TotalGainLoss(p) ==
    IF ~p.none /\ "Total Gain/Loss Dollar" \in p.cols
    THEN SumColumn(p, "Total Gain/Loss Dollar")
    ELSE 0

\* (total_gain_loss / (total_value - total_gain_loss)) * 100 as the
\* fraction num / den; 0 when the denominator is 0.
GainLossPct(total_value, total_gain_loss) ==
    IF total_value - total_gain_loss # 0
    THEN [num |-> total_gain_loss * 100, den |-> total_value - total_gain_loss]
    ELSE [num |-> 0, den |-> 1]

Performance(dividends, count, total_value, total_gain_loss) ==
    [total_dividends     |-> dividends,
     transaction_count   |-> count,
     total_value         |-> total_value,
     total_gain_loss     |-> total_gain_loss,
     total_gain_loss_pct |-> GainLossPct(total_value, total_gain_loss)]

\* analyze_performance: raised = TRUE where a column the code indexes is
\* missing (KeyError) or the Action column is not an object column
\* (AttributeError of .str).
AnalyzePerformance(a) ==
    IF \/ ~a.history_df.none /\ ~({"Action", "Amount"} \subseteq a.history_df.cols)
       \/ ~a.history_df.none /\ "Action" \in a.history_df.nontext
       \/ ~a.positions_df.none /\ "Current Value" \notin a.positions_df.cols
    THEN [raised |-> TRUE, performance |-> NoPerformance]
    ELSE [raised |-> FALSE,
          performance |-> Performance(Dividends(a.history_df),
                                      IF a.history_df.none THEN 0 ELSE Len(a.history_df.rows),
                                      TotalValue(a.positions_df),
                                      TotalGainLoss(a.positions_df))]

\* The values of the Investment Type column that are texts.
InvestmentTypes(p) ==
    {p.rows[i]["Investment Type"].s :
        i \in {j \in 1..Len(p.rows) : p.rows[j]["Investment Type"].t = "str"}}

\* get_asset_allocation: groupby('Investment Type')['Current Value'].sum(),
\* as the set of its (type, sum) entries; rows without a type form no group.
GetAssetAllocation(a) ==
    IF a.positions_df.none \/ "Investment Type" \notin a.positions_df.cols THEN {}
    ELSE {[k |-> ty,
           v |-> SumColumn(DfFilter(a.positions_df,
                                    LabelsWhere(a.positions_df, "Investment Type", {Str(ty)})),
                           "Current Value")] :
                ty \in InvestmentTypes(a.positions_df)}

(***************************************************************************)
(* Input files of the model                                                *)
(***************************************************************************)
\* The date text of day d of January 2025, d in 1..9.
DateText(d) == Str(<<"0","1","/","0",Digits[d + 1],"/","2","0","2","5">>)

HistoryCols == {"Run Date", "Action", "Symbol", "Quantity", "Price", "Currency", "Amount"}

HistoryRow(date, action, symbol, quantity, price, currency, amount) ==
    [c \in HistoryCols |->
        CASE c = "Run Date" -> date
          [] c = "Action" -> action
          [] c = "Symbol" -> symbol
          [] c = "Quantity" -> quantity
          [] c = "Price" -> price
          [] c = "Currency" -> currency
          [] OTHER -> amount]

\* YOU BOUGHT 10 NVDA @ 100 on day 1
hBuyNVDA ==
    HistoryRow(DateText(1), Str(<<"Y","O","U"," ","B","O","U","G","H","T">>), Str(<<"N","V","D","A">>),
               Num(Units(10)), Num(Units(100)), Str(<<"U","S","D">>), Num(0 - Units(1000)))

\* YOU SOLD 10 NVDA on day 2 (a sale carries a negative quantity)
hSellNVDA ==
    HistoryRow(DateText(2), Str(<<"Y","O","U"," ","S","O","L","D">>), Str(<<"N","V","D","A">>),
               Num(0 - Units(10)), Num(Units(100)), Str(<<"U","S","D">>), Str(<<"$","1",",","0","0","0",".","0","0">>))

\* YOU BOUGHT 45 VOO on day 1
hBuyVOO ==
    HistoryRow(DateText(1), Str(<<"Y","O","U"," ","B","O","U","G","H","T">>), Str(<<"V","O","O">>),
               Num(Units(45)), Num(Units(20)), Str(<<"U","S","D">>), Num(0 - Units(900)))

\* A shifted row: USD under Quantity, the quantity 10 under Price, the price 100 under Currency
hShifted ==
    HistoryRow(DateText(1), Str(<<"Y","O","U"," ","B","O","U","G","H","T">>), Str(<<"N","V","D","A">>),
               Str(<<"U","S","D">>), Num(Units(10)), Num(Units(100)), Num(0 - Units(1000)))

\* Dividend Received of $12.50 on day 3, no quantity
hDividend ==
    HistoryRow(DateText(3), Str(<<"D","i","v","i","d","e","n","d"," ","R","e","c","e","i","v","e","d">>), Str(<<"A","A","P","L">>),
               NaN, NaN, Str(<<"U","S","D">>), Str(<<"$","1","2",".","5","0">>))

\* REINVESTMENT into SPAXX on day 2 with an empty quantity
hReinvest ==
    HistoryRow(DateText(2), Str(<<"R","E","I","N","V","E","S","T","M","E","N","T">>), Str(<<"S","P","A","X","X">>),
               NaN, Num(Units(1)), Str(<<"U","S","D">>), Num(0 - Units(5)))

\* YOU BOUGHT 0.0005 AAPL on day 2 (a fractional share)
hBuyTiny ==
    HistoryRow(DateText(2), Str(<<"Y","O","U"," ","B","O","U","G","H","T">>), Str(<<"A","A","P","L">>),
               Str(<<"0",".","0","0","0","5">>), Num(Units(200)), Str(<<"U","S","D">>), NaN)

\* A footer line: text under Run Date, nothing else
hFooter ==
    HistoryRow(Str(<<"D","a","t","e"," ","d","o","w","n","l","o","a","d","e","d">>), NaN, NaN,
               NaN, NaN, NaN, NaN)

\* Dividend Received on day 3 whose Amount is the text n/a
hBadAmount ==
    HistoryRow(DateText(3), Str(<<"D","i","v","i","d","e","n","d"," ","R","e","c","e","i","v","e","d">>), Str(<<"A","A","P","L">>),
               NaN, NaN, Str(<<"U","S","D">>), Str(<<"n","/","a">>))

HistoryRows == {hBuyNVDA, hSellNVDA, hBuyVOO, hShifted, hDividend, hReinvest, hBuyTiny, hFooter,
                hBadAmount}

PositionCols == {"Account Number", "Symbol", "Quantity", "Current Value", "Investment Type",
                 "Total Gain/Loss Dollar"}

PositionRow(account, symbol, quantity, value, type, gain_loss) ==
    [c \in PositionCols |->
        CASE c = "Account Number" -> account
          [] c = "Symbol" -> symbol
          [] c = "Quantity" -> quantity
          [] c = "Current Value" -> value
          [] c = "Investment Type" -> type
          [] OTHER -> gain_loss]

Account == Str(<<"X","1">>)

\* SPAXX** (cash): quantity 500, value $500.00
pSPAXX ==
    PositionRow(Account, Str(<<"S","P","A","X","X","*","*">>),
                Num(Units(500)), Str(<<"$","5","0","0",".","0","0">>), Str(<<"C","a","s","h">>), NaN)

\* FDRXX** (cash): no quantity given, value 100
pFDRXX ==
    PositionRow(Account, Str(<<"F","D","R","X","X","*","*">>),
                NaN, Num(Units(100)), Str(<<"C","a","s","h">>), NaN)

\* NVDA: quantity 2, value 400
pNVDA ==
    PositionRow(Account, Str(<<"N","V","D","A">>),
                Num(Units(2)), Num(Units(400)), Stocks, Num(Units(100)))

\* NVDA* again: quantity 3, value 600
pNVDAstar ==
    PositionRow(Account, Str(<<"N","V","D","A","*">>),
                Num(Units(3)), Num(Units(600)), Stocks, Num(Units(150)))

\* AAPL: quantity 5, value 85
pAAPL ==
    PositionRow(Account, Str(<<"A","A","P","L">>),
                Num(Units(5)), Num(Units(85)), Stocks, Num(0 - Units(15)))

\* VOO: quantity 1, value 15
pVOO ==
    PositionRow(Account, Str(<<"V","O","O">>),
                Num(Units(1)), Num(Units(15)), Str(<<"E","T","F","s">>), Num(Units(5)))

\* XYZ: quantity 10, value 500 (in no factor list)
pXYZ ==
    PositionRow(Account, Str(<<"X","Y","Z">>),
                Num(Units(10)), Num(Units(500)), Stocks, NaN)

\* SHRT: a short position, quantity -5, value -$50.00
pShort ==
    PositionRow(Account, Str(<<"S","H","R","T">>),
                Str(<<"-","5">>), Str(<<"-","$","5","0",".","0","0">>), Stocks, NaN)

\* A row whose symbol is the artifact ** alone
pStars ==
    PositionRow(Account, Str(<<"*","*">>),
                Num(Units(1)), Num(Units(10)), NaN, NaN)

\* The Pending activity line of the account
pPending ==
    PositionRow(Account, Str(<<"P","e","n","d","i","n","g"," ","a","c","t","i","v","i","t","y">>),
                NaN, Num(Units(10)), NaN, NaN)

\* A line of the account with no symbol
pNoSymbol ==
    PositionRow(Account, NaN,
                NaN, NaN, NaN, NaN)

\* A footer line: no account number
pFooter ==
    PositionRow(NaN, Str(<<"D","i","s","c","l","a","i","m","e","r">>),
                NaN, NaN, NaN, NaN)

PositionRows == {pSPAXX, pFDRXX, pNVDA, pNVDAstar, pAAPL, pVOO, pXYZ, pShort, pStars, pPending,
                 pNoSymbol, pFooter}

OrderCols == {"Symbol", "Side", "Quantity", "Average Price", "State", "Date"}

Order(symbol, side, quantity, price, state, date) ==
    [c \in OrderCols |->
        CASE c = "Symbol" -> symbol
          [] c = "Side" -> side
          [] c = "Quantity" -> quantity
          [] c = "Average Price" -> price
          [] c = "State" -> state
          [] OTHER -> date]

\* buy 10 AAPL @ 100, filled on day 1
oBuyAAPL ==
    Order(Str(<<"A","A","P","L">>), Str(<<"b","u","y">>), Num(Units(10)), Num(Units(100)),
          Str(<<"f","i","l","l","e","d">>), DateText(1))

\* sell 10 aapl @ 110, filled on day 2
oSellAAPL ==
    Order(Str(<<"a","a","p","l">>), Str(<<"s","e","l","l">>), Num(Units(10)), Num(Units(110)),
          Str(<<"f","i","l","l","e","d">>), DateText(2))

\* Buy 2 NVDA @ 200, filled on day 1
oBuyNVDA ==
    Order(Str(<<"N","V","D","A">>), Str(<<"B","u","y">>), Num(Units(2)), Num(Units(200)),
          Str(<<"f","i","l","l","e","d">>), DateText(1))

\* sell 1.9995 NVDA @ 210, filled on day 3
oSellMost ==
    Order(Str(<<"N","V","D","A">>), Str(<<"s","e","l","l">>), Str(<<"1",".","9","9","9","5">>), Num(Units(210)),
          Str(<<"f","i","l","l","e","d">>), DateText(3))

\* sell 10 AAPL, cancelled on day 2
oCancelled ==
    Order(Str(<<"A","A","P","L">>), Str(<<"s","e","l","l">>), Num(Units(10)), Num(Units(105)),
          Str(<<"c","a","n","c","e","l","l","e","d">>), DateText(2))

\* buy 1 VOO @ 500, filled on day 2
oBuyVOO ==
    Order(Str(<<"V","O","O">>), Str(<<"b","u","y">>), Num(Units(1)), Num(Units(500)),
          Str(<<"f","i","l","l","e","d">>), DateText(2))

\* buy VOO, filled on day 2, whose quantity is the text n/a
oBadQuantity ==
    Order(Str(<<"V","O","O">>), Str(<<"b","u","y">>), Str(<<"n","/","a">>), Num(Units(500)),
          Str(<<"f","i","l","l","e","d">>), DateText(2))

Orders == {oBuyAAPL, oSellAAPL, oBuyNVDA, oSellMost, oCancelled, oBuyVOO, oBadQuantity}

\* The sequences over S of length at most n
SeqsUpTo(S, n) == UNION {[1..k -> S] : k \in 0..n}

HistoryFiles == {Csv(HistoryCols, rows) : rows \in SeqsUpTo(HistoryRows, MaxHistRows)}

PositionFiles == {Csv(PositionCols, rows) : rows \in SeqsUpTo(PositionRows, MaxPosRows)}

OrderFiles == {Csv(OrderCols, rows) : rows \in SeqsUpTo(Orders, MaxOrderRows)}

\* The histories uploaded together with a position snapshot.
PairedHistories ==
    {Csv(HistoryCols, <<hBuyNVDA, hDividend>>), Csv(HistoryCols, <<hBuyVOO>>),
     Csv(HistoryCols, <<hShifted, hReinvest>>)}

\* The runs of the model: the entry point and the files at the two paths.
Inputs ==
    {[mode |-> "fidelity", history |-> h, positions |-> NoFile] :
        h \in HistoryFiles \cup {Unreadable}}
    \cup {[mode |-> "fidelity", history |-> h, positions |-> p] :
        h \in PairedHistories, p \in PositionFiles \cup {Unreadable}}
    \cup {[mode |-> "robinhood", history |-> h, positions |-> NoFile] :
        h \in OrderFiles \cup {Unreadable}}

(***************************************************************************)
(* The run: PortfolioAnalyzer(...), the load, then generate_report         *)
(***************************************************************************)
VARIABLES mode, history_file, positions_file, pc,
          history_df, positions_df, holdings, holdings_data,
          performance, tweaks, total_exposure, factor_exposure, allocation

\* The web server with two requests in flight (used by ServerSpec only): the
\* files of the upload folder, what each request's client sent, each
\* request's position in its handler, the files its analyzer opened and its
\* analyzer.
VARIABLES disk, sent, at, opened, analyzer

server == <<disk, sent, at, opened, analyzer>>

Requests == {"r1", "r2"}

\* os.path.join(app.config['UPLOAD_FOLDER'], ...)
history_path == "uploads/history.csv"

positions_path == "uploads/positions.csv"

rh_path == "uploads/robinhood.csv"

\* PortfolioAnalyzer(...) before any load
NewAnalyzer ==
    [history_df |-> None, positions_df |-> None, holdings |-> <<>>, holdings_data |-> <<>>]

\* No request is in flight.
NoRequests ==
    /\ disk = [path \in {history_path, positions_path, rh_path} |-> NoFile]
    /\ sent = [r \in Requests |-> [route |-> "none", history |-> NoFile,
                                   positions |-> NoFile, robinhood |-> NoFile]]
    /\ at = [r \in Requests |-> "none"]
    /\ opened = [r \in Requests |-> [history |-> NoFile, positions |-> NoFile, robinhood |-> NoFile]]
    /\ analyzer = [r \in Requests |-> NewAnalyzer]

vars == <<mode, history_file, positions_file, pc, history_df, positions_df, holdings,
          holdings_data, performance, tweaks, total_exposure, factor_exposure, allocation>>

\* The analyzer as the methods read it.
Self ==
    [history_df |-> history_df, positions_df |-> positions_df,
     holdings |-> holdings, holdings_data |-> holdings_data]

Run(input) ==
    /\ mode = input.mode
    /\ history_file = input.history
    /\ positions_file = input.positions

Init ==
    /\ NoRequests
    /\ \E input \in Inputs : Run(input)
    /\ pc = "start"
    /\ history_df = None
    /\ positions_df = None
    /\ holdings = <<>>
    /\ holdings_data = <<>>
    /\ performance = NoPerformance
    /\ tweaks = <<>>
    /\ total_exposure = 0
    /\ factor_exposure = <<>>
    /\ allocation = {}

files == <<mode, history_file, positions_file>>

results == <<performance, tweaks, total_exposure, factor_exposure, allocation>>

\* The analyzer's fields and the run's position after a load returned r.
Loaded(r) ==
    /\ history_df' = r.history_df
    /\ positions_df' = r.positions_df
    /\ pc' = IF r.ok THEN "loaded" ELSE "failed"

Held(r) ==
    /\ holdings' = r.holdings
    /\ holdings_data' = r.holdings_data

\* analyze_fidelity / main: analyzer.load_data()
load_data ==
    /\ pc = "start" /\ mode = "fidelity"
    /\ Loaded(LoadData(history_file, positions_file))
    /\ UNCHANGED <<files, holdings, holdings_data, results>>
    /\ UNCHANGED server

LoadedOrders(r) == Loaded(r) /\ Held(r)

\* analyze_robinhood: analyzer.load_robinhood_data()
load_robinhood_data ==
    /\ pc = "start" /\ mode = "robinhood"
    /\ LoadedOrders(LoadRobinhood(history_file))
    /\ UNCHANGED <<files, results>>
    /\ UNCHANGED server

\* generate_report: holdings = analyzer.calculate_holdings()
calculate_holdings ==
    /\ pc = "loaded"
    /\ Held(CalculateHoldings(Self))
    /\ pc' = "holdings"
    /\ UNCHANGED <<files, history_df, positions_df, results>>
    /\ UNCHANGED server

Analyzed(r) ==
    /\ performance' = r.performance
    /\ pc' = IF r.raised THEN "raised" ELSE "performance"

\* generate_report: perf = analyzer.analyze_performance(); an exception
\* ends the request.
analyze_performance ==
    /\ pc = "holdings"
    /\ Analyzed(AnalyzePerformance(Self))
    /\ UNCHANGED <<files, history_df, positions_df, holdings, holdings_data,
                   tweaks, total_exposure, factor_exposure, allocation>>
    /\ UNCHANGED server

Advised(r) ==
    /\ tweaks' = r.tweaks
    /\ total_exposure' = r.total_exposure

\* generate_report: tweaks = analyzer.generate_tweaks()
generate_tweaks ==
    /\ pc = "performance"
    /\ Advised(GenerateTweaks(Self))
    /\ pc' = "tweaks"
    /\ UNCHANGED <<files, history_df, positions_df, holdings, holdings_data,
                   performance, factor_exposure, allocation>>
    /\ UNCHANGED server

\* generate_report: factors = analyzer.get_factor_exposure()
get_factor_exposure ==
    /\ pc = "tweaks"
    /\ factor_exposure' = GetFactorExposure(Self)
    /\ pc' = "factors"
    /\ UNCHANGED <<files, history_df, positions_df, holdings, holdings_data,
                   performance, tweaks, total_exposure, allocation>>
    /\ UNCHANGED server

\* generate_report: allocation = analyzer.get_asset_allocation()
get_asset_allocation ==
    /\ pc = "factors"
    /\ allocation' = GetAssetAllocation(Self)
    /\ pc' = "done"
    /\ UNCHANGED <<files, history_df, positions_df, holdings, holdings_data,
                   performance, tweaks, total_exposure, factor_exposure>>
    /\ UNCHANGED server

Next ==
    \/ load_data
    \/ load_robinhood_data
    \/ calculate_holdings
    \/ analyze_performance
    \/ generate_tweaks
    \/ get_factor_exposure
    \/ get_asset_allocation

Spec == Init /\ [][Next]_vars

(***************************************************************************)
(* The web server: two requests handled by concurrent threads               *)
(***************************************************************************)
\* The files the clients upload.
HistoryUploads == {Csv(HistoryCols, <<hBuyNVDA>>), Csv(HistoryCols, <<hBuyVOO, hDividend>>)}

PositionUploads == {Csv(PositionCols, <<pNVDA>>), Csv(PositionCols, <<pAAPL, pVOO>>)}

OrderUploads == {Csv(OrderCols, <<oBuyAAPL>>), Csv(OrderCols, <<oBuyVOO>>)}

\* request.files of a POST to /analyze_fidelity or /analyze_robinhood
Submissions ==
    {[route |-> "fidelity", history |-> h, positions |-> p, robinhood |-> NoFile] :
        h \in HistoryUploads, p \in PositionUploads}
    \cup {[route |-> "robinhood", history |-> NoFile, positions |-> NoFile, robinhood |-> o] :
        o \in OrderUploads}

\* No pipeline run of its own: the single-run variables stay as constructed.
NoRun ==
    /\ Run([mode |-> "none", history |-> NoFile, positions |-> NoFile])
    /\ pc = "none"
    /\ history_df = None /\ positions_df = None
    /\ holdings = <<>> /\ holdings_data = <<>>
    /\ performance = NoPerformance /\ tweaks = <<>> /\ total_exposure = 0
    /\ factor_exposure = <<>> /\ allocation = {}

ServerInit ==
    /\ NoRun
    /\ disk = [path \in {history_path, positions_path, rh_path} |-> NoFile]
    /\ sent \in [Requests -> Submissions]
    /\ at = [r \in Requests |-> "start"]
    /\ opened = [r \in Requests |-> [history |-> NoFile, positions |-> NoFile, robinhood |-> NoFile]]
    /\ analyzer = [r \in Requests |-> NewAnalyzer]

\* FileStorage.save(path): the file is opened for writing, which empties
\* it, and then written; r moves from the position before to the position
\* opening and from there to the position after.
Save(r, path, file, before, opening, after) ==
    /\ \/ /\ at[r] = before
          /\ disk' = [disk EXCEPT ![path] = Unreadable]
          /\ at' = [at EXCEPT ![r] = opening]
       \/ /\ at[r] = opening
          /\ disk' = [disk EXCEPT ![path] = file]
          /\ at' = [at EXCEPT ![r] = after]
    /\ UNCHANGED <<sent, opened, analyzer, vars>>

\* analyze_fidelity: history_file.save(history_path)
save_history(r) ==
    /\ sent[r].route = "fidelity"
    /\ Save(r, history_path, sent[r].history, "start", "history_open", "history_saved")

\* analyze_fidelity: positions_file.save(positions_path)
save_positions(r) ==
    /\ sent[r].route = "fidelity"
    /\ Save(r, positions_path, sent[r].positions, "history_saved", "positions_open", "saved")

\* analyze_robinhood: rh_file.save(rh_path)
save_robinhood(r) ==
    /\ sent[r].route = "robinhood"
    /\ Save(r, rh_path, sent[r].robinhood, "start", "robinhood_open", "saved")

\* The history half of load_data on the file now at the path.
HistoryRead(r, file, h) ==
    /\ opened' = [opened EXCEPT ![r].history = file]
    /\ analyzer' = [analyzer EXCEPT ![r].history_df = h.df]
    /\ at' = [at EXCEPT ![r] = IF h.ok THEN "history_read" ELSE "failed"]

\* analyzer.load_data(): pd.read_csv(self.history_filepath) and the
\* history clean-up
read_history(r) ==
    /\ sent[r].route = "fidelity" /\ at[r] = "saved"
    /\ HistoryRead(r, disk[history_path], LoadHistory(disk[history_path]))
    /\ UNCHANGED <<disk, sent, vars>>

\* analyzer.load_data(): pd.read_csv(self.positions_filepath) and the
\* positions clean-up; load_data returns True
read_positions(r) ==
    /\ at[r] = "history_read"
    /\ opened' = [opened EXCEPT ![r].positions = disk[positions_path]]
    /\ analyzer' = [analyzer EXCEPT ![r].positions_df = LoadPositions(disk[positions_path])]
    /\ at' = [at EXCEPT ![r] = "loaded"]
    /\ UNCHANGED <<disk, sent, vars>>

OrdersRead(r, file, l) ==
    /\ opened' = [opened EXCEPT ![r].robinhood = file]
    /\ analyzer' = [analyzer EXCEPT ![r] = [history_df |-> l.history_df,
                                             positions_df |-> l.positions_df,
                                             holdings |-> l.holdings,
                                             holdings_data |-> l.holdings_data]]
    /\ at' = [at EXCEPT ![r] = IF l.ok THEN "loaded" ELSE "failed"]

\* analyzer.load_robinhood_data()
read_robinhood(r) ==
    /\ sent[r].route = "robinhood" /\ at[r] = "saved"
    /\ OrdersRead(r, disk[rh_path], LoadRobinhood(disk[rh_path]))
    /\ UNCHANGED <<disk, sent, vars>>

Reported(r, held, perf) ==
    /\ analyzer' = [analyzer EXCEPT ![r].holdings = held.holdings,
                                    ![r].holdings_data = held.holdings_data]
    /\ at' = [at EXCEPT ![r] = IF perf.raised THEN "raised" ELSE "done"]

\* generate_report(analyzer): it works on the analyzer alone
report(r) ==
    /\ at[r] = "loaded"
    /\ Reported(r, CalculateHoldings(analyzer[r]), AnalyzePerformance(analyzer[r]))
    /\ UNCHANGED <<disk, sent, opened, vars>>

ServerNext ==
    \/ \E r \in Requests : save_history(r)
    \/ \E r \in Requests : save_positions(r)
    \/ \E r \in Requests : save_robinhood(r)
    \/ \E r \in Requests : read_history(r)
    \/ \E r \in Requests : read_positions(r)
    \/ \E r \in Requests : read_robinhood(r)
    \/ \E r \in Requests : report(r)

ServerSpec == ServerInit /\ [][ServerNext]_<<vars, server>>

(***************************************************************************)
(* Properties                                                              *)
(***************************************************************************)
\* The positions of the run at which calculate_holdings has returned.
AfterHoldings == {"holdings", "performance", "raised", "tweaks", "factors", "done"}

AfterTweaks == {"tweaks", "factors", "done"}

AfterFactors == {"factors", "done"}

T_NVDA == <<"N","V","D","A">>

T_SPAXX == <<"S","P","A","X","X">>

\* C1: on every reconciliation path, every symbol of the final holdings map
\* has a quantity strictly greater than the tolerance 0.001: no zero or
\* negative entry appears.
HoldingsAboveTolerance ==
    pc \in AfterHoldings =>
        \A i \in 1..Len(holdings) : holdings[i].v > ResidualTolerance

\* The holdings and details calculate_holdings returns for a fresh analyzer
\* that loaded the two files.
HoldingsOfLoad(l) ==
    CalculateHoldings([history_df |-> l.history_df, positions_df |-> l.positions_df,
                       holdings |-> <<>>, holdings_data |-> <<>>])

SameHoldings(r) == r.holdings = holdings /\ r.holdings_data = holdings_data

\* C2: when load_data is given a history and a (readable) position snapshot,
\* calculate_holdings returns the holdings map and the detail map that it
\* returns for every other history paired with the same snapshot.
SnapshotDecidesHoldings ==
    (mode = "fidelity" /\ pc \in AfterHoldings /\ positions_file.kind = "csv") =>
        \A h \in PairedHistories :
            LoadData(h, positions_file).ok =>
                SameHoldings(HoldingsOfLoad(LoadData(h, positions_file)))

\* A snapshot decided the holdings although the replay of the history gives
\* other, non-empty holdings.
SnapshotDecidesHoldingsWitness ==
    /\ mode = "fidelity" /\ pc = "holdings" /\ positions_file.kind = "csv"
    /\ holdings # <<>>
    /\ HistoryReplay(history_df) # <<>>
    /\ HistoryReplay(history_df) # holdings

\* The indices of the loaded history rows that name the symbol.
RowsOf(symbol) ==
    IF mode = "fidelity"
    THEN {i \in 1..Len(history_df.rows) : Text(history_df.rows[i]["Symbol"]) = symbol}
    ELSE {i \in 1..Len(history_df.rows) : Upper(Text(history_df.rows[i]["symbol"])) = symbol}

\* Row i buys q > 0 shares and the later row j sells the same q shares.  A
\* legacy row sells q shares with the quantity -q; an order with the side
\* sell and the quantity q.
BuyThenSell(i, j) ==
    IF mode = "fidelity"
    THEN /\ i < j
         /\ Contains(Upper(Text(history_df.rows[i]["Action"])), BOUGHT)
         /\ Contains(Upper(Text(history_df.rows[j]["Action"])), SOLD)
         /\ ReplayQty(history_df.rows[i]["Quantity"]) > 0
         /\ ReplayQty(history_df.rows[j]["Quantity"]) = 0 - ReplayQty(history_df.rows[i]["Quantity"])
    ELSE /\ i < j
         /\ Lower(Text(history_df.rows[i]["side"])) = <<"b","u","y">>
         /\ Lower(Text(history_df.rows[j]["side"])) = <<"s","e","l","l">>
         /\ FloatCell(history_df.rows[i]["quantity"]).n > 0
         /\ FloatCell(history_df.rows[j]["quantity"]).n = FloatCell(history_df.rows[i]["quantity"]).n

\* The symbols whose only two transactions are a buy and a later sell of the
\* same quantity.
BoughtThenSold ==
    {symbol \in {Text(history_df.rows[i][IF mode = "fidelity" THEN "Symbol" ELSE "symbol"]) :
                    i \in 1..Len(history_df.rows)} \cup
                {Upper(Text(history_df.rows[i][IF mode = "fidelity" THEN "Symbol" ELSE "symbol"])) :
                    i \in 1..Len(history_df.rows)} :
        /\ Cardinality(RowsOf(symbol)) = 2
        /\ \E i, j \in RowsOf(symbol) : BuyThenSell(i, j)}

\* The holdings were replayed from transactions, not taken from a snapshot.
Replayed ==
    \/ mode = "fidelity" /\ pc \in AfterHoldings /\ positions_df.none
    \/ mode = "robinhood" /\ pc \in {"loaded"} \cup AfterHoldings

\* C3: in a transaction-only replay, a buy of q shares of a symbol followed
\* later by a sell of the same q shares, with no other transaction of that
\* symbol, leaves the symbol absent from the holdings; on the legacy replay
\* path and on the retail-orders path.
BuyThenSellLeavesNothing ==
    Replayed => \A symbol \in BoughtThenSold : symbol \notin Keys(holdings)

\* A legacy replay where another symbol was bought between the buy and the
\* sell, and is held.
BuyThenSellLeavesNothingWitness ==
    /\ mode = "fidelity" /\ pc = "holdings" /\ positions_df.none
    /\ Len(history_df.rows) = 3
    /\ BuyThenSell(1, 3)
    /\ Text(history_df.rows[1]["Symbol"]) \in BoughtThenSold
    /\ Text(history_df.rows[2]["Symbol"]) \in Keys(holdings)

\* The row of the history file that the loaded row came from.
RawRow(row) == history_file.rows[row["#"].n + 1]

FileShifted ==
    \E i \in 1..Len(history_file.rows) : Contains(Text(history_file.rows[i]["Quantity"]), USD)

\* C4: the schema repair is decided for the whole file.  If the Quantity of
\* any row contains "USD", every loaded row has under Quantity what the file
\* has under Price and under Price what the file has under Currency, and a
\* shifted BOUGHT row with 10 under Price yields a holding of 10; if no
\* Quantity contains "USD", no column is renamed and every row keeps its
\* Quantity and Price.
SchemaRepairAllOrNothing ==
    (mode = "fidelity" /\ pc \in {"loaded"} \cup AfterHoldings) =>
        /\ \A i \in 1..Len(history_df.rows) :
              IF FileShifted
              THEN /\ history_df.rows[i]["Quantity"] = RawRow(history_df.rows[i])["Price"]
                   /\ history_df.rows[i]["Price"] = RawRow(history_df.rows[i])["Currency"]
              ELSE /\ history_df.rows[i]["Quantity"] = RawRow(history_df.rows[i])["Quantity"]
                   /\ history_df.rows[i]["Price"] = RawRow(history_df.rows[i])["Price"]
        /\ ~FileShifted => history_df.cols = HistoryCols \cup {"#", "Date"}
        /\ (pc \in AfterHoldings /\ positions_df.none /\ history_file.rows = <<hShifted>>) =>
              holdings = <<[k |-> T_NVDA, v |-> Units(10)]>>

\* A file with a shifted row and a row without "USD" was loaded, both rows
\* re-bound, and the shifted BOUGHT row counts 10 shares.
SchemaRepairAllOrNothingWitness ==
    /\ mode = "fidelity" /\ pc = "holdings" /\ positions_df.none
    /\ Len(history_df.rows) = 2
    /\ \E i \in 1..2 : ~Contains(Text(history_file.rows[i]["Quantity"]), USD)
    /\ \A i \in 1..2 : history_df.rows[i]["Quantity"] = RawRow(history_df.rows[i])["Price"]
    /\ DictGet(holdings, T_NVDA, 0) = Units(10)

\* The position rows the fold does not skip, by index.
FoldedRows ==
    {i \in 1..Len(positions_df.rows) : ~SkipSymbol(Text(positions_df.rows[i]["Symbol"]))}

FoldedSymbol(i) == CleanSymbol(Text(positions_df.rows[i]["Symbol"]))

\* The last row that carries the cleaned symbol.
LastRowOf(symbol) ==
    CHOOSE i \in FoldedRows :
        FoldedSymbol(i) = symbol /\ \A j \in FoldedRows : FoldedSymbol(j) = symbol => j <= i

\* C5: after the snapshot fold the holdings map contains exactly the cleaned
\* symbols of the position rows that are not skipped, each with the quantity
\* of the last row carrying it, and no key is empty, 'nan' or contains
\* "Pending activity".
SnapshotFoldKeys ==
    (mode = "fidelity" /\ pc \in AfterHoldings /\ ~positions_df.none) =>
        /\ Keys(holdings) = {FoldedSymbol(i) : i \in FoldedRows}
        /\ \A symbol \in Keys(holdings) :
              Lookup(holdings, symbol) = positions_df.rows[LastRowOf(symbol)]["Quantity"].n
        /\ \A symbol \in Keys(holdings) :
              /\ symbol # <<>>
              /\ symbol # <<"n","a","n">>
              /\ ~Contains(symbol, PendingActivity)

\* The weight generate_tweaks and get_factor_exposure give the i-th holding.
WeightAt(i) == Weight(Self, holdings[i].k, holdings[i].v)

HasAdvisory(symbol) ==
    \E t \in 1..Len(tweaks) : tweaks[t].kind = "concentration" /\ tweaks[t].symbol = symbol

\* The i-th holding's share of the total exposure is strictly above percent.
ShareAbove(i, percent) ==
    total_exposure > 0 /\ WeightAt(i) * 100 > percent * total_exposure

Cash(symbol) == Join(symbol) \in {"SPAXX", "FDRXX"}

\* C6 (as stated): a non-cash held symbol gets a concentration advisory
\* exactly when its share of total exposure is strictly above the threshold,
\* 15% when the weights are values of a position snapshot and 20% when they
\* are quantities of a transaction replay only.
ThresholdByWeighting ==
    pc \in AfterTweaks =>
        \A i \in 1..Len(holdings) :
            ~Cash(holdings[i].k) =>
                (HasAdvisory(holdings[i].k) <=>
                    ShareAbove(i, IF positions_df.none THEN 20 ELSE 15))

\* C6 (amended): a non-cash held symbol gets a concentration advisory
\* exactly when its share of total exposure is strictly above 15%, whether
\* the weights are snapshot values or replayed quantities; a share of exactly
\* 15% gets none, and neither does any symbol when the total exposure is not
\* positive.
ThresholdFifteen ==
    pc \in AfterTweaks =>
        \A i \in 1..Len(holdings) :
            ~Cash(holdings[i].k) => (HasAdvisory(holdings[i].k) <=> ShareAbove(i, 15))

\* In a replay-only run a symbol with a share above 15% and not above 20% got
\* its advisory.
ThresholdFifteenWitness ==
    /\ pc = "tweaks" /\ positions_df.none
    /\ \E i \in 1..Len(holdings) :
          /\ ~Cash(holdings[i].k)
          /\ ShareAbove(i, 15) /\ ~ShareAbove(i, 20)
          /\ HasAdvisory(holdings[i].k)

CashHeld == SelectSeq(holdings, LAMBDA e : Cash(e.k))

CashWeight == SumSeq([i \in 1..Len(CashHeld) |-> Weight(Self, CashHeld[i].k, CashHeld[i].v)])

\* The total exposure of the same portfolio without its cash equivalents.
ExposureWithoutCash ==
    SumValues(GetFactorExposure([Self EXCEPT !.holdings = SelectSeq(holdings, LAMBDA e : ~Cash(e.k))]))

ConcentrationAdvisories == SelectSeq(tweaks, LAMBDA t : t.kind = "concentration")

\* C7: SPAXX and FDRXX never get a concentration advisory, and their weight
\* is part of the total exposure the other shares are measured against: a
\* snapshot of SPAXX worth 500 and NVDA worth 400 has the total 900 and one
\* advisory, for NVDA at 44.4%.
CashExemptButCounted ==
    pc \in AfterTweaks =>
        /\ \A t \in 1..Len(tweaks) : tweaks[t].kind = "concentration" => ~Cash(tweaks[t].symbol)
        /\ CashWeight > 0 => total_exposure = ExposureWithoutCash + CashWeight
        /\ (positions_file.kind = "csv" /\ positions_file.rows \in {<<pSPAXX, pNVDA>>, <<pNVDA, pSPAXX>>}) =>
              /\ total_exposure = Units(900)
              /\ ConcentrationAdvisories = <<[kind |-> "concentration", symbol |-> T_NVDA,
                                              val |-> Units(400), pct |-> 444]>>

\* The snapshot of SPAXX 500 and NVDA 400 was advised on.
CashExemptButCountedWitness ==
    /\ pc = "tweaks" /\ positions_file.kind = "csv"
    /\ positions_file.rows = <<pSPAXX, pNVDA>>
    /\ Lookup(holdings, T_SPAXX) = Units(500)
    /\ CashWeight * 100 > 15 * total_exposure
    /\ HasAdvisory(T_NVDA) /\ ~HasAdvisory(T_SPAXX)

Rank(kind) ==
    CASE kind = "diversification" -> 1
      [] kind = "concentration" -> 2
      [] kind = "factor" -> 3

\* C8: the advisories come in the order diversification first, then the
\* concentration advisories by non-increasing weight, then the factor-balance
\* advisory; there is at most one diversification and one factor-balance
\* advisory.
AdvisoriesOrdered ==
    pc \in AfterTweaks =>
        /\ \A i, j \in 1..Len(tweaks) :
              i < j => /\ Rank(tweaks[i].kind) <= Rank(tweaks[j].kind)
                       /\ (tweaks[i].kind = "concentration" /\ tweaks[j].kind = "concentration")
                              => tweaks[i].val >= tweaks[j].val
        /\ Len(SelectSeq(tweaks, LAMBDA t : t.kind = "diversification")) <= 1
        /\ Len(SelectSeq(tweaks, LAMBDA t : t.kind = "factor")) <= 1

\* All three kinds were emitted, with two concentration advisories that the
\* sort put in another order than the holdings map has them.
AdvisoriesOrderedWitness ==
    /\ pc = "tweaks" /\ Len(tweaks) = 4 /\ Len(holdings) = 2
    /\ tweaks[1].kind = "diversification" /\ tweaks[4].kind = "factor"
    /\ tweaks[2].symbol = holdings[2].k /\ tweaks[3].symbol = holdings[1].k
    /\ tweaks[2].val > tweaks[3].val

\* The named factors whose list holds the symbol.
NamedFactors(symbol) == {i \in 1..Len(factors) : Join(symbol) \in factors[i].symbols}

ClassOf(symbol) ==
    IF NamedFactors(symbol) = {} THEN "Unclassified"
    ELSE factors[CHOOSE i \in NamedFactors(symbol) : TRUE].name

Buckets == {factors[i].name : i \in 1..Len(factors)} \cup {"Unclassified"}

\* The sum of the weights of the held symbols of one bucket.
WeightIn(bucket) ==
    SumSeq([i \in 1..Len(holdings) |-> IF ClassOf(holdings[i].k) = bucket THEN WeightAt(i) ELSE 0])

\* C9: every held symbol adds its weight to exactly one bucket, the single
\* named factor that lists it or else Unclassified; the returned map has a
\* bucket exactly when the sum of the weights added to it is positive, with
\* that sum as its value.
OneBucketPerSymbol ==
    pc \in AfterFactors =>
        /\ \A i \in 1..Len(holdings) : Cardinality(NamedFactors(holdings[i].k)) <= 1
        /\ Keys(factor_exposure) = {b \in Buckets : WeightIn(b) > 0}
        /\ \A b \in Keys(factor_exposure) : Lookup(factor_exposure, b) = WeightIn(b)

\* A listed and an unlisted symbol are held and each is in its own bucket.
OneBucketPerSymbolWitness ==
    /\ pc = "factors" /\ Len(holdings) = 2
    /\ Keys(factor_exposure) = {"Growth/Tech", "Unclassified"}
    /\ ClassOf(holdings[1].k) # ClassOf(holdings[2].k)

\* C10: the values of the returned factor-exposure map sum to no more than
\* the total of the weights of the held symbols, negative weights included.
FactorSumWithinTotal ==
    pc \in AfterFactors =>
        SumValues(factor_exposure) <= SumSeq([i \in 1..Len(holdings) |-> WeightAt(i)])

\* The rows of the input file with a field that fails its coercion: the
\* Amount of a history row, the quantity or the price of an order.
Malformed ==
    IF mode = "fidelity"
    THEN {i \in 1..Len(history_file.rows) : ~AmountCell(history_file.rows[i]["Amount"]).ok}
    ELSE {i \in 1..Len(history_file.rows) :
            \/ ~FloatCell(history_file.rows[i]["Quantity"]).ok
            \/ ~FloatCell(history_file.rows[i]["Average Price"]).ok}

\* The file without its row i.
WithoutRow(file, i) ==
    Csv(file.cols, SubSeq(file.rows, 1, i - 1) \o SubSeq(file.rows, i + 1, Len(file.rows)))

\* The holdings of a run on the history file without its row i.
HoldingsWithoutRow(i) ==
    IF mode = "fidelity"
    THEN HoldingsOfLoad(LoadData(WithoutRow(history_file, i), positions_file)).holdings
    ELSE LoadRobinhood(WithoutRow(history_file, i)).holdings

NoReportFromUnreadableInput ==
    (history_file.kind = "unreadable" \/ positions_file.kind = "unreadable") =>
        pc \in {"start", "failed"}

AfterPerformance == {"performance", "tweaks", "factors", "done"}

dividend == <<"d","i","v","i","d","e","n","d">>

\* The Amount of the i-th loaded transaction where its Action contains
\* "dividend" in any case, else 0.
DividendAmount(i) ==
    IF Contains(Lower(Text(history_df.rows[i]["Action"])), dividend)
    THEN history_df.rows[i]["Amount"].n
    ELSE 0

\* C13: total_dividends is the sum of Amount over exactly the loaded
\* transactions whose Action contains "DIVIDEND" in any case: a dividend of
\* $12.50 next to a BOUGHT row of -1000 gives 12.50; without a transaction
\* stream it is 0.
DividendsSummed ==
    pc \in AfterPerformance =>
        /\ performance.total_dividends =
              SumSeq([i \in 1..Len(history_df.rows) |-> DividendAmount(i)])
        /\ history_file.rows \in {<<hDividend, hBuyNVDA>>, <<hBuyNVDA, hDividend>>} =>
              performance.total_dividends = Units(12) + 5000
        /\ ~AnalyzePerformance([Self EXCEPT !.history_df = None]).raised =>
              AnalyzePerformance([Self EXCEPT !.history_df = None]).performance.total_dividends = 0

\* A dividend in mixed case was summed next to a purchase with a negative
\* Amount.
DividendsSummedWitness ==
    /\ pc = "performance"
    /\ performance.total_dividends = Units(12) + 5000
    /\ \E i, j \in 1..Len(history_df.rows) :
          /\ Text(history_df.rows[i]["Action"]) = Text(hDividend["Action"])
          /\ Contains(Text(history_df.rows[j]["Action"]), BOUGHT)
          /\ history_df.rows[j]["Amount"].n < 0

\* C14: after load_robinhood_data returned True, the metric sequence of
\* generate_report completes without raising.
OrdersReportCompletes ==
    mode = "robinhood" => pc # "raised"

\* C15: after a successful load and calculate_holdings, on every path,
\* holdings_data has no key that is absent from holdings.
DetailsOnlyForHeld ==
    pc \in AfterHoldings => Keys(holdings_data) \subseteq Keys(holdings)

\* C16: with two requests handled concurrently, in every interleaving of
\* their save and load steps each request's analyzer opens exactly the files
\* that request's client uploaded.
OwnFilesLoaded ==
    \A r \in Requests :
        /\ at[r] \in {"history_read", "loaded", "done", "raised", "failed"} /\ sent[r].route = "fidelity"
              => opened[r].history = sent[r].history
        /\ at[r] \in {"loaded", "done", "raised"} /\ sent[r].route = "fidelity"
              => opened[r].positions = sent[r].positions
        /\ at[r] \in {"loaded", "done", "raised", "failed"} /\ sent[r].route = "robinhood"
              => opened[r].robinhood = sent[r].robinhood

====
